---------------------------- MODULE Spec2Model ----------------------------
(***************************************************************************)
(* A model of fastapi_jwt_auth.auth_jwt.AuthJWT: the per-request           *)
(* authentication helper that extracts a credential from a header, mints   *)
(* access / refresh tokens, verifies presented tokens, consults the        *)
(* denylist predicate and enforces the access / refresh / fresh policy.    *)
(*                                                                         *)
(* Python exceptions are modelled as the "out" field of a result record:   *)
(* "ok" is a normal return, anything else is the class of the exception    *)
(* that leaves the function.  Python's None is the string "None" for       *)
(* string-valued attributes and the tagged value PyNone for the            *)
(* expires_time union.                                                     *)
(***************************************************************************)
EXTENDS Integers, Sequences, FiniteSets, TLC

VARIABLES
    cfg,     \* the AuthConfig class attributes (process-wide, read-only)
    now,     \* the wall clock, whole seconds since the epoch
    token,   \* AuthJWT._token of the request's instance (NoToken when unset)
    res      \* what the last operation called on the instance did

vars == <<cfg, now, token, res>>

None == "None"

\* _token is None: a stored token is never empty, so the empty sequence
\* stands for it.  A header that is absent and a header that is empty are
\* both falsy to "if auth:", and both are the empty sequence too.
NoToken == <<>>

\* Python truthiness of a string-or-None attribute: None and "" are falsy.
Falsy(x) == x \in {None, ""}

(***************************************************************************)
(* Bounds of the model.                                                    *)
(***************************************************************************)
MaxTime == 2        \* the clock runs from 1 to MaxTime
MaxSeconds == 2     \* integer expires_time overrides range over -1..MaxSeconds
MaxHalves == 3      \* timedelta overrides range over -MaxHalves..MaxHalves half-seconds
MaxHeaderLen == 4   \* header values are strings of 1..MaxHeaderLen characters

(***************************************************************************)
(* Key resolver: _get_secret_key                                           *)
(***************************************************************************)
symmetric_algorithms == {"HS256", "HS384", "HS512"}

\* jwt.algorithms.requires_cryptography
asymmetric_algorithms ==
    {"RS256", "RS384", "RS512", "ES256", "ES384", "ES521", "ES512",
     "PS256", "PS384", "PS512"}

Ok(v) == [out |-> "ok", val |-> v]
Raise(e) == [out |-> e, val |-> None]

\* A resolver that hands out the private key whatever the process is.
_get_secret_key_private_for_decode(c, algorithm, process) ==
    IF algorithm \notin symmetric_algorithms /\ algorithm \notin asymmetric_algorithms
    THEN Raise("ValueError")
    ELSE IF algorithm \in symmetric_algorithms
    THEN IF Falsy(c.secret_key) THEN Raise("RuntimeError") ELSE Ok(c.secret_key)
    ELSE IF ~c.has_crypto THEN Raise("RuntimeError")
    ELSE IF Falsy(c.private_key) THEN Raise("RuntimeError") ELSE Ok(c.private_key)

_get_secret_key(c, algorithm, process) ==
    IF algorithm \notin symmetric_algorithms /\ algorithm \notin asymmetric_algorithms
    THEN Raise("ValueError")
    ELSE IF algorithm \in symmetric_algorithms
    THEN IF Falsy(c.secret_key) THEN Raise("RuntimeError") ELSE Ok(c.secret_key)
    ELSE IF algorithm \in asymmetric_algorithms /\ ~c.has_crypto
    THEN Raise("RuntimeError")
    ELSE IF process = "encode"
    THEN IF Falsy(c.private_key) THEN Raise("RuntimeError") ELSE Ok(c.private_key)
    ELSE IF process = "decode"
    THEN IF Falsy(c.public_key) THEN Raise("RuntimeError") ELSE Ok(c.public_key)
    ELSE Ok(None)

(***************************************************************************)
(* The expires_time union (None | bool | int | timedelta) as tagged        *)
(* values.  A timedelta is held in half-seconds, so that the conversion    *)
(* int(total_seconds()) has something to truncate.                         *)
(***************************************************************************)
PyNone == [t |-> "none", v |-> 0]
PyBool(b) == [t |-> "bool", v |-> IF b THEN 1 ELSE 0]
PyInt(n) == [t |-> "int", v |-> n]
PyDelta(h) == [t |-> "timedelta", v |-> h]

(***************************************************************************)
(* AuthConfig: the attributes auth_jwt.py reads.  DefaultCfg is one        *)
(* complete deployment; each specification varies the attributes its       *)
(* operations read.                                                        *)
(***************************************************************************)
DefaultCfg ==
    [ header_type           |-> <<"B">>,
      secret_key            |-> "S",
      private_key           |-> None,
      public_key            |-> None,
      has_crypto            |-> TRUE,
      algorithm             |-> "HS256",
      decode_algorithms     |-> {},
      decode_leeway         |-> 0,
      decode_issuer         |-> None,
      decode_audience       |-> None,
      encode_issuer         |-> None,
      denylist_enabled      |-> FALSE,
      denylist_token_checks |-> {"access", "refresh"},
      has_callback          |-> FALSE,
      revoked               |-> {},
      access_token_expires  |-> PyDelta(2),
      refresh_token_expires |-> PyInt(2) ]

Idle == [op |-> "none"]

(***************************************************************************)
(* SpecKey: the key resolver applied to every algorithm name and process   *)
(* under every combination of set / unset key material.                    *)
(***************************************************************************)
KeyAlgorithms ==
    {"HS256", "HS384", "HS512", "RS256", "ES256", "PS512", "none", "XX999"}

KeyConfigs ==
    { [DefaultCfg EXCEPT !.secret_key = s, !.private_key = pr,
                         !.public_key = pu, !.has_crypto = hc] :
        s \in {None, "", "S"}, pr \in {None, "PRIV"}, pu \in {None, "PUB"},
        hc \in BOOLEAN }

InitKey ==
    /\ cfg \in KeyConfigs
    /\ now = 1
    /\ token = NoToken
    /\ res = Idle

GetSecretKey(algorithm, process) ==
    /\ res' = [op |-> "_get_secret_key", algorithm |-> algorithm,
               process |-> process, r |-> _get_secret_key(cfg, algorithm, process)]
    /\ UNCHANGED <<cfg, now, token>>

NextKey == \E a \in KeyAlgorithms, p \in {"encode", "decode"} : GetSecretKey(a, p)

SpecKey == InitKey /\ [][NextKey]_vars

ConfigErrors == {"ValueError", "RuntimeError"}

\* The key the claim names for an asymmetric algorithm: private to sign,
\* public to verify.
AsymKeyFor(process) ==
    IF process = "encode" THEN cfg.private_key ELSE cfg.public_key

KeyCase(crypto_matters) ==
    res.op = "_get_secret_key" =>
        LET a == res.algorithm
            r == res.r
        IN  /\ (a \notin symmetric_algorithms \cup asymmetric_algorithms
                    => r.out \in ConfigErrors)
            /\ (a \in symmetric_algorithms =>
                    IF Falsy(cfg.secret_key) THEN r.out \in ConfigErrors
                    ELSE r = Ok(cfg.secret_key))
            /\ (a \in asymmetric_algorithms =>
                    IF crypto_matters /\ ~cfg.has_crypto THEN r.out \in ConfigErrors
                    ELSE IF Falsy(AsymKeyFor(res.process)) THEN r.out \in ConfigErrors
                    ELSE /\ r = Ok(AsymKeyFor(res.process))
                         /\ (res.process = "decode" => r.val # cfg.private_key)
                         /\ (res.process = "encode" =>
                                r.val \notin {cfg.public_key, cfg.secret_key}))

\* C8 as stated: an asymmetric algorithm always yields the configured
\* private key (sign) or public key (verify) when that key is set.
C8_AsStated == KeyCase(FALSE)

\* C8 (amended): unknown algorithm -> configuration error; symmetric ->
\* the single secret under both processes (error if unset); asymmetric ->
\* a configuration error when the cryptographic capability is missing,
\* otherwise the private key to sign and the public key to verify (error
\* if that key is unset); verification never gets the private key and
\* signing never gets the public key or the secret.
C8_KeyResolution == KeyCase(TRUE)

C8_Witness ==
    /\ res.op = "_get_secret_key"
    /\ res.algorithm \in asymmetric_algorithms
    /\ res.process = "decode"
    /\ cfg.has_crypto
    /\ ~Falsy(cfg.private_key)
    /\ ~Falsy(cfg.secret_key)
    /\ res.r = Ok(cfg.public_key)

(***************************************************************************)
(* Expiry policy and claim construction: _get_expired_time, _create_token, *)
(* create_access_token, create_refresh_token.                              *)
(***************************************************************************)
\* bool(x) of a value of the expires_time union.
Truthy(x) == x.t # "none" /\ x.v # 0

\* "x is False": the identity test, true of the boolean False only.
IsFalse(x) == x.t = "bool" /\ x.v = 0

\* Python's "a or b".
PyOr(a, b) == IF Truthy(a) THEN a ELSE b

\* int(timedelta.total_seconds()) of a timedelta of h half-seconds: int()
\* truncates towards zero.
TotalSecondsInt(h) == IF h >= 0 THEN h \div 2 ELSE -((-h) \div 2)

DefaultExpires(c, type_token) ==
    IF type_token = "access" THEN c.access_token_expires
    ELSE c.refresh_token_expires

_get_expired_time(c, type_token, expires_time, t) ==
    IF Truthy(expires_time) /\ expires_time.t \notin {"timedelta", "int", "bool"}
    THEN Raise("TypeError")
    ELSE
    LET e1 == IF ~IsFalse(expires_time) /\ type_token \in {"access", "refresh"}
              THEN PyOr(expires_time, DefaultExpires(c, type_token))
              ELSE expires_time
    IN  IF ~IsFalse(e1)
        THEN LET e2 == IF e1.t = "bool" /\ type_token \in {"access", "refresh"}
                       THEN DefaultExpires(c, type_token) ELSE e1
                 e3 == IF e2.t = "timedelta" THEN PyInt(TotalSecondsInt(e2.v)) ELSE e2
             IN  IF e3.t \in {"int", "bool"} THEN Ok(PyInt(t + e3.v))
                 ELSE Raise("TypeError")
        ELSE Ok(PyNone)

\* A signed token: the header's alg, the key that made the signature, and
\* the claim set.  An absent claim is None (PyNone for exp and fresh).
MkToken(alg, key, identity, typ, fresh, exp, iss, aud, jti) ==
    [ alg |-> alg, key |-> key, identity |-> identity, type |-> typ,
      fresh |-> fresh, exp |-> exp, iss |-> iss, aud |-> aud, jti |-> jti ]

\* t is datetime.now() as seconds, jti the uuid4 drawn by _get_jwt_identifier.
_create_token(c, identity, type_token, exp_time, fresh, algorithm, issuer, audience, jti) ==
    LET alg == IF Falsy(algorithm) THEN c.algorithm ELSE algorithm
        key == _get_secret_key(c, alg, "encode")
    IN  IF key.out # "ok" THEN key
        ELSE Ok(MkToken(alg, key.val, identity, type_token,
                        IF type_token = "access" THEN PyBool(fresh) ELSE PyNone,
                        IF Truthy(exp_time) THEN exp_time ELSE PyNone,
                        IF Falsy(issuer) THEN None ELSE issuer,
                        IF Falsy(audience) THEN None ELSE audience,
                        jti))

create_access_token(c, identity, fresh, algorithm, expires_time, audience, t, jti) ==
    LET e == _get_expired_time(c, "access", expires_time, t)
    IN  IF e.out # "ok" THEN e
        ELSE _create_token(c, identity, "access", e.val, fresh, algorithm,
                           c.encode_issuer, audience, jti)

create_refresh_token(c, identity, algorithm, expires_time, audience, t, jti) ==
    LET e == _get_expired_time(c, "refresh", expires_time, t)
    IN  IF e.out # "ok" THEN e
        ELSE _create_token(c, identity, "refresh", e.val, FALSE, algorithm,
                           None, audience, jti)

(***************************************************************************)
(* SpecExp: tokens minted under every override of the expiry.              *)
(***************************************************************************)
JTIs == {"j1", "j2"}

Overrides ==
    {PyNone, PyBool(FALSE), PyBool(TRUE), [t |-> "str", v |-> 1]}
        \cup {PyInt(n) : n \in -1..MaxSeconds}
        \cup {PyDelta(h) : h \in -MaxHalves..MaxHalves}

ExpConfigs ==
    { [DefaultCfg EXCEPT !.access_token_expires = a, !.refresh_token_expires = r,
                         !.encode_issuer = i] :
        a \in {PyDelta(3), PyInt(2)}, r \in {PyDelta(5), PyInt(3)},
        i \in {None, "iss1"} }

InitExp ==
    /\ cfg \in ExpConfigs
    /\ now = 1
    /\ token = NoToken
    /\ res = Idle

Tick ==
    /\ now < MaxTime
    /\ now' = now + 1
    /\ res' = Idle
    /\ UNCHANGED <<cfg, token>>

CreateAccessToken(fresh, expires_time, jti) ==
    /\ res' = [op |-> "create_access_token", type |-> "access",
               expires_time |-> expires_time, at |-> now,
               r |-> create_access_token(cfg, "u1", fresh, None, expires_time,
                                         None, now, jti)]
    /\ UNCHANGED <<cfg, now, token>>

CreateRefreshToken(expires_time, jti) ==
    /\ res' = [op |-> "create_refresh_token", type |-> "refresh",
               expires_time |-> expires_time, at |-> now,
               r |-> create_refresh_token(cfg, "u1", None, expires_time,
                                          None, now, jti)]
    /\ UNCHANGED <<cfg, now, token>>

NextExp ==
    \/ Tick
    \/ \E f \in BOOLEAN, o \in Overrides, j \in JTIs : CreateAccessToken(f, o, j)
    \/ \E o \in Overrides, j \in JTIs : CreateRefreshToken(o, j)

SpecExp == InitExp /\ [][NextExp]_vars

\* The whole seconds a duration or integer stands for.
SecondsOf(x) == IF x.t = "timedelta" THEN TotalSecondsInt(x.v) ELSE x.v

\* C6: the created token has no exp when the override is False, exp =
\* now + the default duration of its type when the override is unset or
\* True, and exp = now + the override when that is an integer or a
\* duration, zero included (stated here for the overrides that are not
\* negative).
C6_ExpiryPolicy ==
    (res.op \in {"create_access_token", "create_refresh_token"}
        /\ res.expires_time.t \in {"none", "bool", "int", "timedelta"}
        /\ res.expires_time.v >= 0) =>
        /\ res.r.out = "ok"
        /\ LET o == res.expires_time
               d == DefaultExpires(cfg, res.type)
               exp == res.r.val.exp
           IN  IF IsFalse(o) THEN exp = PyNone
               ELSE IF o.t \in {"none", "bool"} THEN exp = PyInt(res.at + SecondsOf(d))
               ELSE exp = PyInt(res.at + SecondsOf(o))

(***************************************************************************)
(* Credential extraction: AuthJWT.__init__ and _get_jwt_from_headers.      *)
(* A header value is a sequence of characters; " " is the whitespace       *)
(* character and "." the regular-expression metacharacter, which matters   *)
(* because header_type is pasted into the pattern of re.match unescaped.   *)
(***************************************************************************)
Chars == {"B", "x", " ", "."}

IsSpace(ch) == ch = " "

\* str.split(): the maximal runs of non-whitespace characters, in order.
RECURSIVE SplitFrom(_, _, _)
SplitFrom(s, i, cur) ==
    IF i > Len(s)
    THEN IF cur = <<>> THEN <<>> ELSE <<cur>>
    ELSE IF IsSpace(s[i])
    THEN IF cur = <<>> THEN SplitFrom(s, i + 1, <<>>)
         ELSE <<cur>> \o SplitFrom(s, i + 1, <<>>)
    ELSE SplitFrom(s, i + 1, Append(cur, s[i]))

split(s) == SplitFrom(s, 1, <<>>)

\* re.match(r"{}\s".format(header_type), auth): each character of
\* header_type is a pattern atom ("." matches any character, the others
\* themselves), matched from the first character of auth and followed by
\* one whitespace character.
re_match_type(header_type, auth) ==
    /\ Len(auth) > Len(header_type)
    /\ \A i \in 1..Len(header_type) :
          header_type[i] = "." \/ header_type[i] = auth[i]
    /\ IsSpace(auth[Len(header_type) + 1])

\* The result's val is the value stored in _token.
_get_jwt_from_headers(c, auth) ==
    LET parts == split(auth)
    IN  IF c.header_type = <<>>
        THEN IF Len(parts) # 1 THEN Raise("InvalidHeaderError") ELSE Ok(parts[1])
        ELSE IF ~re_match_type(c.header_type, auth) \/ Len(parts) # 2
             THEN Raise("InvalidHeaderError")
             ELSE Ok(parts[2])

\* AuthJWT(req): an absent or empty header leaves _token at the class
\* default, None.
AuthJWT_init(c, auth) ==
    IF auth = <<>> THEN Ok(NoToken)
    ELSE _get_jwt_from_headers(c, auth)

(***************************************************************************)
(* SpecHeader: an instance constructed from every short header value.      *)
(***************************************************************************)
RECURSIVE Strings(_)
Strings(n) ==
    IF n = 0 THEN {<<>>}
    ELSE LET shorter == Strings(n - 1)
         IN  shorter \cup {Append(s, ch) : s \in shorter, ch \in Chars}

HeaderValues == Strings(MaxHeaderLen)

HeaderTypes == {<<>>, <<"B">>, <<".">>, <<"B", "x">>, <<"B", ".">>}

InitHeader ==
    /\ cfg \in {[DefaultCfg EXCEPT !.header_type = h] : h \in HeaderTypes}
    /\ now = 1
    /\ token = NoToken
    /\ res = Idle

\* One request: the instance is constructed once.
Construct(auth) ==
    /\ res = Idle
    /\ LET r == AuthJWT_init(cfg, auth)
       IN  /\ token' = IF r.out = "ok" THEN r.val ELSE NoToken
           /\ res' = [op |-> "__init__", auth |-> auth, out |-> r.out]
    /\ UNCHANGED <<cfg, now>>

NextHeader == \E v \in HeaderValues : Construct(v)

SpecHeader == InitHeader /\ [][NextHeader]_vars

\* v begins with the characters of h and a whitespace character.
BeginsWith(v, h) ==
    /\ Len(v) > Len(h)
    /\ SubSeq(v, 1, Len(h)) = h
    /\ IsSpace(v[Len(h) + 1])

\* The number of whitespace-delimited parts of v, counted from the
\* boundaries: a part starts at each non-space that follows a space or
\* the start of v.
PartStarts(v) ==
    {i \in 1..Len(v) : ~IsSpace(v[i]) /\ (i = 1 \/ IsSpace(v[i - 1]))}

\* The part of v that starts at position i.
PartAt(v, i) ==
    LET ends == {j \in i..Len(v) : \A k \in i..j : ~IsSpace(v[k])}
        last == CHOOSE j \in ends : \A k \in ends : k <= j
    IN  SubSeq(v, i, last)

NthStart(v, n) ==
    CHOOSE i \in PartStarts(v) : Cardinality({k \in PartStarts(v) : k <= i}) = n

\* C7: a non-empty header value either stores exactly one raw token or
\* fails with InvalidHeader: with no header type, the single part of a
\* one-part value; with header type h, the second part of a two-part value
\* that begins with h followed by whitespace; every other shape fails and
\* stores nothing.
C7_CredentialExtraction ==
    (res.op = "__init__" /\ res.auth # <<>>) =>
        LET v == res.auth
            h == cfg.header_type
            n == Cardinality(PartStarts(v))
        IN  /\ res.out \in {"ok", "InvalidHeaderError"}
            /\ (res.out = "InvalidHeaderError" => token = NoToken)
            /\ IF h = <<>>
               THEN IF n = 1 THEN res.out = "ok" /\ token = PartAt(v, NthStart(v, 1))
                    ELSE res.out = "InvalidHeaderError"
               ELSE IF BeginsWith(v, h) /\ n = 2
                    THEN res.out = "ok" /\ token = PartAt(v, NthStart(v, 2))
                    ELSE res.out = "InvalidHeaderError"

(***************************************************************************)
(* Verification: _verified_token, _check_token_is_revoked and              *)
(* _verifying_token.  These return [out, trace]: trace lists what the call *)
(* did, in order: "verified" (jwt.decode returned the claims),             *)
(* "decode_failed" (jwt.decode raised), "denylist" (the registered         *)
(* predicate was called).  The claims jwt.decode returns are the payload   *)
(* of the token it was given.                                              *)
(***************************************************************************)
E(out, trace) == [out |-> out, trace |-> trace]

\* The outcome of a call made after call a returned normally.
Then(a, b) == [out |-> b.out, trace |-> a.trace \o b.trace]

\* A token whose header section does not parse, and a header with no alg.
Malformed == "<malformed>"
NoAlg == "<no alg>"

\* The signature made with signing_key under alg checks out against key:
\* the same secret for a symmetric algorithm, the public half of the
\* signer's pair for an asymmetric one.
SignatureVerifies(alg, signing_key, key) ==
    IF alg \in symmetric_algorithms THEN signing_key = key
    ELSE signing_key = "PRIV" /\ key = "PUB"

\* jwt.decode(token, key, issuer, audience, leeway, algorithms) at time t
\* returns (TRUE) or raises (FALSE).  iat and nbf are the minting time and
\* the clock never runs backwards, so their checks always pass.
jwt_decode(tok, key, issuer, audience, leeway, algorithms, t) ==
    /\ tok.alg \in algorithms
    /\ SignatureVerifies(tok.alg, tok.key, key)
    /\ (tok.exp # PyNone => tok.exp.v >= t - leeway)
    /\ (issuer # None => tok.iss = issuer)
    /\ tok.aud = audience

_verified_token(c, tok, issuer, t) ==
    LET algorithms == IF c.decode_algorithms = {} THEN {c.algorithm}
                      ELSE c.decode_algorithms
    IN  IF tok.alg = Malformed THEN E("InvalidHeaderError", <<>>)
        ELSE IF tok.alg = NoAlg THEN E("KeyError", <<>>)
        ELSE LET secret_key == _get_secret_key(c, tok.alg, "decode")
             IN  IF secret_key.out # "ok" THEN E(secret_key.out, <<>>)
                 ELSE IF jwt_decode(tok, secret_key.val, issuer, c.decode_audience,
                                    c.decode_leeway, algorithms, t)
                 THEN E("ok", <<"verified">>)
                 ELSE E("JWTDecodeError", <<"decode_failed">>)

\* The host's predicate: a set of revoked jti.
token_in_denylist_callback(c, raw_token) == raw_token.jti \in c.revoked

\* A gate that forgets to look at what the predicate answers.
_check_token_is_revoked_ignores_answer(c, raw_token) ==
    IF ~c.denylist_enabled THEN E("ok", <<>>)
    ELSE IF ~c.has_callback THEN E("RuntimeError", <<>>)
    ELSE E("ok", <<"denylist">>)

_check_token_is_revoked(c, raw_token) ==
    IF ~c.denylist_enabled THEN E("ok", <<>>)
    ELSE IF ~c.has_callback THEN E("RuntimeError", <<>>)
    ELSE IF token_in_denylist_callback(c, raw_token)
    THEN E("RevokedTokenError", <<"denylist">>)
    ELSE E("ok", <<"denylist">>)

\* A pipeline that consults the denylist whatever the token's type.
_verifying_token_checks_every_type(c, tok, issuer, t) ==
    LET raw_token == _verified_token(c, tok, issuer, t)
    IN  IF raw_token.out # "ok" THEN raw_token
        ELSE Then(raw_token, _check_token_is_revoked(c, tok))

_verifying_token(c, tok, issuer, t) ==
    LET raw_token == _verified_token(c, tok, issuer, t)
    IN  IF raw_token.out # "ok" THEN raw_token
        ELSE IF tok.type \in c.denylist_token_checks
        THEN Then(raw_token, _check_token_is_revoked(c, tok))
        ELSE raw_token

(***************************************************************************)
(* Accessors.  tkn is _token: NoToken or <<tok>>.  The result carries the  *)
(* returned value in val: <<>> for None and <<claims>> otherwise for       *)
(* get_raw_jwt, a string for the others.                                   *)
(***************************************************************************)
V(r, val) == [out |-> r.out, trace |-> r.trace, val |-> val]

get_raw_jwt(c, tkn, t) ==
    IF tkn # NoToken
    THEN LET r == _verified_token(c, tkn[1], None, t)
         IN  V(r, IF r.out = "ok" THEN tkn ELSE <<>>)
    ELSE V(E("ok", <<>>), <<>>)

get_jti(c, encoded_token, t) ==
    LET r == _verified_token(c, encoded_token, None, t)
    IN  V(r, IF r.out = "ok" THEN encoded_token.jti ELSE None)

get_jwt_identity(c, tkn, t) ==
    IF tkn # NoToken
    THEN LET r == _verified_token(c, tkn[1], None, t)
         IN  V(r, IF r.out = "ok" THEN tkn[1].identity ELSE None)
    ELSE V(E("ok", <<>>), None)

\* get_raw_jwt()['type']; subscripting None raises TypeError.
_get_type_token(c, tkn, t) ==
    LET r == get_raw_jwt(c, tkn, t)
    IN  IF r.out # "ok" THEN V(r, None)
        ELSE IF r.val = <<>> THEN V(E("TypeError", r.trace), None)
        ELSE V(r, r.val[1].type)

\* get_raw_jwt()['fresh']; the value is a PyBool, or PyNone when the claim
\* set has no fresh (a KeyError).
_get_fresh_token(c, tkn, t) ==
    LET r == get_raw_jwt(c, tkn, t)
    IN  IF r.out # "ok" THEN V(r, PyNone)
        ELSE IF r.val = <<>> THEN V(E("TypeError", r.trace), PyNone)
        ELSE IF r.val[1].fresh = PyNone THEN V(E("KeyError", r.trace), PyNone)
        ELSE V(r, r.val[1].fresh)

(***************************************************************************)
(* Guards.  Every jwt.decode reads the clock anew: ts[k] is the clock at   *)
(* the k-th decode of the call.  "type_check" and "fresh_check" in the     *)
(* trace mark the comparison of the claim with what the guard requires.    *)
(***************************************************************************)
\* The comparison "_get_type_token() != required", raising error on a mismatch.
TypeCheck(c, tkn, t, required, error) ==
    LET ty == _get_type_token(c, tkn, t)
    IN  IF ty.out # "ok" THEN E(ty.out, ty.trace)
        ELSE IF ty.val # required THEN E(error, Append(ty.trace, "type_check"))
        ELSE E("ok", Append(ty.trace, "type_check"))

\* An access guard that verifies the token and never looks at its type.
jwt_required_no_type_check(c, tkn, ts) ==
    IF tkn = NoToken THEN E("MissingHeaderError", <<>>)
    ELSE _verifying_token(c, tkn[1], c.decode_issuer, ts[1])

jwt_required(c, tkn, ts) ==
    LET v == IF tkn # NoToken
             THEN _verifying_token(c, tkn[1], c.decode_issuer, ts[1])
             ELSE E("ok", <<>>)
    IN  IF v.out # "ok" THEN v
        ELSE IF tkn = NoToken THEN E("MissingHeaderError", v.trace)
        ELSE Then(v, TypeCheck(c, tkn, ts[2], "access", "AccessTokenRequired"))

\* An optional guard that insists on a credential.
jwt_optional_insists(c, tkn, ts) ==
    IF tkn = NoToken THEN E("MissingHeaderError", <<>>)
    ELSE jwt_required(c, tkn, ts)

jwt_optional(c, tkn, ts) ==
    LET v == IF tkn # NoToken
             THEN _verifying_token(c, tkn[1], c.decode_issuer, ts[1])
             ELSE E("ok", <<>>)
    IN  IF v.out # "ok" THEN v
        ELSE IF tkn # NoToken
        THEN Then(v, TypeCheck(c, tkn, ts[2], "access", "AccessTokenRequired"))
        ELSE v

jwt_refresh_token_required(c, tkn, ts) ==
    LET v == IF tkn # NoToken
             THEN _verifying_token(c, tkn[1], None, ts[1])
             ELSE E("ok", <<>>)
    IN  IF v.out # "ok" THEN v
        ELSE IF tkn = NoToken THEN E("MissingHeaderError", v.trace)
        ELSE Then(v, TypeCheck(c, tkn, ts[2], "refresh", "RefreshTokenRequired"))

\* "not self._get_fresh_token()".
FreshCheck(c, tkn, t) ==
    LET f == _get_fresh_token(c, tkn, t)
    IN  IF f.out # "ok" THEN E(f.out, f.trace)
        ELSE IF ~Truthy(f.val) THEN E("FreshTokenRequired", Append(f.trace, "fresh_check"))
        ELSE E("ok", Append(f.trace, "fresh_check"))

\* A fresh guard that stops after the type check.
fresh_jwt_required_no_fresh_check(c, tkn, ts) == jwt_required(c, tkn, ts)

fresh_jwt_required(c, tkn, ts) ==
    LET v == IF tkn # NoToken
             THEN _verifying_token(c, tkn[1], c.decode_issuer, ts[1])
             ELSE E("ok", <<>>)
    IN  IF v.out # "ok" THEN v
        ELSE IF tkn = NoToken THEN E("MissingHeaderError", v.trace)
        ELSE LET ty == Then(v, TypeCheck(c, tkn, ts[2], "access", "AccessTokenRequired"))
             IN  IF ty.out # "ok" THEN ty
                 ELSE Then(ty, FreshCheck(c, tkn, ts[3]))

(***************************************************************************)
(* Spec: one request.  Init is the instance after construction, holding    *)
(* the presented token or none, under a deployment's configuration; the    *)
(* actions are the calls a route makes on it, and the clock.               *)
(***************************************************************************)
Identities == {"u1"}

TypeAndFresh ==
    {<<"access", PyBool(TRUE)>>, <<"access", PyBool(FALSE)>>, <<"refresh", PyNone>>}

\* Deployments that differ in the revocation settings; j1 is the revoked jti.
PolicyConfigs ==
    { [DefaultCfg EXCEPT !.algorithm = k[1], !.secret_key = k[2],
                         !.private_key = k[3], !.public_key = k[4],
                         !.denylist_enabled = en, !.has_callback = cb,
                         !.denylist_token_checks = ch, !.revoked = {"j1"},
                         !.decode_issuer = di] :
        k \in {<<"HS256", "S", None, None>>, <<"RS256", None, "PRIV", "PUB">>},
        en \in BOOLEAN, cb \in BOOLEAN, ch \in SUBSET {"access", "refresh"},
        di \in {None, "iss1"} }

\* Tokens a holder of the keys minted, and the same re-signed by a stranger.
PolicyTokens ==
    { MkToken(ak[1], ak[2], id, tf[1], tf[2], exp, iss, None, j) :
        ak \in {<<"HS256", "S">>, <<"HS256", "X">>, <<"RS256", "PRIV">>},
        id \in Identities, tf \in TypeAndFresh, exp \in {PyNone, PyInt(1)},
        iss \in {None, "iss1"}, j \in JTIs }

\* Deployments that differ in key material, allow-list, issuer, audience
\* and leeway, with revocation enforced.
VerifyConfigs ==
    { [DefaultCfg EXCEPT !.algorithm = k[1], !.decode_algorithms = k[2],
                         !.secret_key = k[3], !.private_key = k[4],
                         !.public_key = k[5], !.has_crypto = k[6],
                         !.denylist_enabled = TRUE, !.has_callback = TRUE,
                         !.revoked = {"j1"},
                         !.decode_issuer = di, !.decode_audience = da,
                         !.decode_leeway = lw] :
        k \in { <<"HS256", {}, "S", None, None, TRUE>>,
                <<"RS256", {}, None, "PRIV", "PUB", TRUE>>,
                <<"HS256", {"HS256", "RS256"}, "S", "PRIV", "PUB", TRUE>>,
                <<"HS256", {}, None, None, None, TRUE>>,
                <<"RS256", {}, None, "PRIV", "PUB", FALSE>> },
        di \in {None, "iss1"}, da \in {None, "aud1"}, lw \in {0, 1} }

\* Whatever a client can send: any declared algorithm over any signing key.
VerifyTokens ==
    { MkToken(alg, key, "u1", "access", PyBool(TRUE), exp, iss, aud, "j2") :
        alg \in {"HS256", "RS256", "none", NoAlg, Malformed},
        key \in {"S", "PRIV", "PUB", "X"}, exp \in {PyNone, PyInt(1)},
        iss \in {None, "iss1", "iss2"}, aud \in {None, "aud1"} }

Init ==
    /\ \/ /\ cfg \in PolicyConfigs
          /\ token \in {NoToken} \cup {<<tok>> : tok \in PolicyTokens}
       \/ /\ cfg \in VerifyConfigs
          /\ token \in {<<tok>> : tok \in VerifyTokens}
    /\ now = 1
    /\ res = Idle

\* The clock readings of a call that decodes up to n times.
Readings(n) ==
    { ts \in [1..n -> now..MaxTime] :
        /\ ts[1] = now
        /\ \A k \in 1..(n - 1) : ts[k] <= ts[k + 1] /\ ts[k + 1] <= ts[k] + 1 }

Call(op, r, ts, val) ==
    /\ res' = [op |-> op, out |-> r.out, trace |-> r.trace, ts |-> ts, val |-> val]
    /\ now' = ts[Len(ts)]
    /\ UNCHANGED <<cfg, token>>

JwtRequired ==
    \E ts \in Readings(2) : Call("jwt_required", jwt_required(cfg, token, ts), ts, None)

JwtOptional ==
    \E ts \in Readings(2) : Call("jwt_optional", jwt_optional(cfg, token, ts), ts, None)

JwtRefreshTokenRequired ==
    \E ts \in Readings(2) :
        Call("jwt_refresh_token_required",
             jwt_refresh_token_required(cfg, token, ts), ts, None)

FreshJwtRequired ==
    \E ts \in Readings(3) :
        Call("fresh_jwt_required", fresh_jwt_required(cfg, token, ts), ts, None)

GetRawJwt ==
    \E ts \in Readings(1) :
        LET r == get_raw_jwt(cfg, token, ts[1])
        IN  Call("get_raw_jwt", r, ts, r.val)

GetJwtIdentity ==
    \E ts \in Readings(1) :
        LET r == get_jwt_identity(cfg, token, ts[1])
        IN  Call("get_jwt_identity", r, ts, r.val)

\* get_jti is given a token by the caller: here, the request's own.
GetJti ==
    /\ token # NoToken
    /\ \E ts \in Readings(1) :
        LET r == get_jti(cfg, token[1], ts[1])
        IN  Call("get_jti", r, ts, r.val)

Next ==
    \/ Tick
    \/ JwtRequired
    \/ JwtOptional
    \/ JwtRefreshTokenRequired
    \/ FreshJwtRequired
    \/ GetRawJwt
    \/ GetJwtIdentity
    \/ GetJti

Spec == Init /\ [][Next]_vars

(***************************************************************************)
(* Properties of the guards and accessors.                                 *)
(***************************************************************************)
Tok == token[1]

AccessGuards == {"jwt_required", "jwt_optional", "fresh_jwt_required"}
Guards == AccessGuards \cup {"jwt_refresh_token_required"}
Accessors == {"get_raw_jwt", "get_jwt_identity", "get_jti"}

\* The issuer a guard expects: the refresh guard passes none.
IssuerFor(op) == IF op = "jwt_refresh_token_required" THEN None ELSE cfg.decode_issuer

\* The presented token passes signature, expiry, issuer and audience
\* verification as guard op runs it at time t.
PassesVerification(op, t) == _verified_token(cfg, Tok, IssuerFor(op), t).out = "ok"

\* The presented token verifies for guard op: it passes verification and
\* the revocation gate at the first clock reading, and is still unexpired
\* at each of the first n readings.
Verifies(op, ts, n) ==
    /\ _verifying_token(cfg, Tok, IssuerFor(op), ts[1]).out = "ok"
    /\ \A k \in 2..n : _verified_token(cfg, Tok, None, ts[k]).out = "ok"

\* The denylist is enforced with a registered predicate, and the presented
\* token's type is one it is consulted for.
DenylistApplies ==
    /\ cfg.denylist_enabled
    /\ cfg.has_callback
    /\ Tok.type \in cfg.denylist_token_checks

\* C1: a verifying refresh token fails each access guard with
\* AccessTokenRequired and passes jwt_refresh_token_required; a verifying
\* access token fails jwt_refresh_token_required with RefreshTokenRequired.
C1_TypeEnforcement ==
    (res.op \in Guards /\ token # NoToken /\ Verifies(res.op, res.ts, 2)) =>
        /\ (Tok.type = "refresh" /\ res.op \in AccessGuards
                => res.out = "AccessTokenRequired")
        /\ (Tok.type = "refresh" /\ res.op = "jwt_refresh_token_required"
                => res.out = "ok")
        /\ (Tok.type = "access" /\ res.op = "jwt_refresh_token_required"
                => res.out = "RefreshTokenRequired")

C1_Witness ==
    /\ res.op = "jwt_required"
    /\ token # NoToken
    /\ Tok.type = "refresh"
    /\ DenylistApplies
    /\ Verifies(res.op, res.ts, 2)
    /\ res.out = "AccessTokenRequired"

\* C2: with the denylist enforced, a predicate registered and a presented
\* token that passes verification and has a checked type, each guard fails
\* with RevokedTokenError if the predicate answers true and never fails
\* with RevokedTokenError if it answers false.
C2_RevocationInGuards ==
    (res.op \in Guards /\ token # NoToken /\ DenylistApplies
        /\ PassesVerification(res.op, res.ts[1])) =>
        (res.out = "RevokedTokenError" <=> token_in_denylist_callback(cfg, Tok))

C2_Witness ==
    /\ res.op = "jwt_refresh_token_required"
    /\ token # NoToken
    /\ DenylistApplies
    /\ PassesVerification(res.op, res.ts[1])
    /\ token_in_denylist_callback(cfg, Tok)
    /\ res.out = "RevokedTokenError"

\* C3: with the denylist enforced and a registered predicate that reports
\* the presented token revoked (its type checked), no guard and no accessor
\* (get_raw_jwt, get_jwt_identity, get_jti) returns successfully.
C3_RevokedNeverAccepted ==
    (res.op \in Guards \cup Accessors /\ token # NoToken /\ DenylistApplies
        /\ token_in_denylist_callback(cfg, Tok)) =>
        res.out # "ok"

\* C4: with no credential, jwt_required, jwt_refresh_token_required and
\* fresh_jwt_required fail with MissingHeader, jwt_optional succeeds,
\* get_raw_jwt and get_jwt_identity return None, and nothing is decoded
\* and the predicate is never called.
C4_MissingCredential ==
    (res.op # "none" /\ token = NoToken) =>
        /\ res.trace = <<>>
        /\ (res.op \in Guards \ {"jwt_optional"} => res.out = "MissingHeaderError")
        /\ (res.op = "jwt_optional" => res.out = "ok")
        /\ (res.op = "get_raw_jwt" => res.out = "ok" /\ res.val = <<>>)
        /\ (res.op = "get_jwt_identity" => res.out = "ok" /\ res.val = None)

C4_Witness ==
    /\ res.op = "jwt_optional"
    /\ token = NoToken
    /\ cfg.denylist_enabled
    /\ res.out = "ok"

\* The position of the first occurrence of event e in trace tr (0: none).
FirstIndex(tr, e) ==
    IF \E i \in 1..Len(tr) : tr[i] = e
    THEN CHOOSE i \in 1..Len(tr) : tr[i] = e /\ \A k \in 1..(i - 1) : tr[k] # e
    ELSE 0

\* C5: for a verifying access token fresh_jwt_required succeeds iff fresh
\* is true and fails with FreshTokenRequired when it is false; jwt_required
\* accepts either value; the freshness check comes only after the type
\* check passed, so a refresh token gets AccessTokenRequired.
C5_FreshnessEnforcement ==
    /\ (res.op = "fresh_jwt_required" /\ token # NoToken /\ Tok.type = "access"
            /\ Verifies(res.op, res.ts, 3)) =>
            /\ (res.out = "ok" <=> Tok.fresh = PyBool(TRUE))
            /\ (Tok.fresh = PyBool(FALSE) => res.out = "FreshTokenRequired")
    /\ (res.op = "jwt_required" /\ token # NoToken /\ Tok.type = "access"
            /\ Verifies(res.op, res.ts, 2)) => res.out = "ok"
    /\ (res.op = "fresh_jwt_required" /\ token # NoToken /\ Tok.type = "refresh"
            /\ Verifies(res.op, res.ts, 2)) => res.out = "AccessTokenRequired"
    /\ (res.op \in Guards /\ FirstIndex(res.trace, "fresh_check") > 0) =>
            /\ FirstIndex(res.trace, "type_check") > 0
            /\ FirstIndex(res.trace, "type_check") < FirstIndex(res.trace, "fresh_check")
            /\ Tok.type = "access"

C5_Witness ==
    /\ res.op = "fresh_jwt_required"
    /\ token # NoToken
    /\ Tok.type = "access"
    /\ Tok.fresh = PyBool(FALSE)
    /\ Verifies(res.op, res.ts, 3)
    /\ res.out = "FreshTokenRequired"

\* The key material of every algorithm on the decode allow-list is set,
\* and the predicate is registered if the denylist is enforced.
SoundDeployment ==
    /\ \A a \in (IF cfg.decode_algorithms = {} THEN {cfg.algorithm}
                 ELSE cfg.decode_algorithms) :
          _get_secret_key(cfg, a, "decode").out = "ok"
    /\ (cfg.denylist_enabled => cfg.has_callback)

RequestFailures ==
    {"MissingHeaderError", "InvalidHeaderError", "JWTDecodeError",
     "RevokedTokenError", "AccessTokenRequired", "RefreshTokenRequired",
     "FreshTokenRequired"}

\* C9: under a sound deployment no presented token makes a guard or an
\* accessor fail with a configuration error: each call succeeds or fails
\* with one of the request-level errors.
C9_NoFatalErrorFromToken ==
    (res.op \in Guards \cup Accessors /\ SoundDeployment) =>
        res.out \in {"ok"} \cup RequestFailures

\* The number of occurrences of event e in trace tr.
Count(tr, e) == Cardinality({i \in 1..Len(tr) : tr[i] = e})

\* C10: a guard calls the predicate at most once, only right after the
\* token passed verification, only when the denylist is enforced and the
\* type is checked, and before the type and freshness checks: a revoked
\* token of the wrong type fails with RevokedTokenError.
C10_GuardOrdering ==
    res.op \in Guards =>
        LET d == FirstIndex(res.trace, "denylist")
        IN  /\ Count(res.trace, "denylist") <= 1
            /\ (d > 0 =>
                    /\ d = 2 /\ res.trace[1] = "verified"
                    /\ PassesVerification(res.op, res.ts[1])
                    /\ cfg.denylist_enabled
                    /\ Tok.type \in cfg.denylist_token_checks
                    /\ \A i \in 1..Len(res.trace) :
                          res.trace[i] \in {"type_check", "fresh_check"} => i > d)
            /\ (token # NoToken /\ DenylistApplies
                    /\ PassesVerification(res.op, res.ts[1])
                    /\ token_in_denylist_callback(cfg, Tok)
                    /\ Tok.type # (IF res.op \in AccessGuards THEN "access" ELSE "refresh")
                    => res.out = "RevokedTokenError")

C10_Witness ==
    /\ res.op = "jwt_required"
    /\ token # NoToken
    /\ Tok.type = "refresh"
    /\ FirstIndex(res.trace, "denylist") = 2
    /\ res.out = "RevokedTokenError"

=============================================================================
